---- MODULE Spec2Model ----
(***************************************************************************)
(* A model of the RejseplanenAPI client (src/main.py): the polyline codec  *)
(* (decode_polyline), the shared-table resolver (_parse_common_data), the  *)
(* section/trip assembler (_parse_trip) and the walking-route cache filled *)
(* by plan_trip through get_walking_details.                               *)
(*                                                                         *)
(* Conventions.                                                            *)
(*  - A Python dict is a TLA+ record whose DOMAIN is the dict's key set,   *)
(*    so "k in d" is  k \in DOMAIN d  and d.get(k, x) is Get(d, k, x).     *)
(*  - An Optional value is None (the empty tuple) or Some(v) (a 1-tuple).  *)
(*  - A string handed to the codec is the sequence of its character codes. *)
(*  - A coordinate is a pair of integers in units of 1e-5 degree: the code *)
(*    divides the accumulated integer by 1e5, which is injective on the    *)
(*    integers of the model, so equality of the floats is equality of the  *)
(*    integers.                                                            *)
(*  - Polyline objects created by a walking fetch live in `heap`; a        *)
(*    reference is the object's index in the heap, 0 is None. Two          *)
(*    references are the identical object iff the indices are equal.       *)
(***************************************************************************)
EXTENDS Integers, Sequences, FiniteSets, TLC

\* ------------------------------------------------------------------ bounds
\* Connections in one TripSearch result set (outConL).
MaxTrips == 2
\* Section records in one TripSearch result set, over all its connections.
MaxSections == 4
\* Characters in a raw string handed to decode_polyline.
MaxLen == 4
\* Points in a coordinate sequence that is encoded and decoded again.
MaxPts == 2
\* Entries in each list field (locL, prodL, polyL) of a common block.
MaxN == 2
\* Sections in a connection handed to _parse_trip on its own.
MaxAsmSecs == 1

\* --------------------------------------------------------------- constants
\* section.booking_deadline_minutes = 120
BookingDeadline == 120
\* b = ord(c) - 63
CharOffset == 63
\* the continuation test  b < 0x20
ContinueFrom == 32

VARIABLES
    \* ---- client and plan_trip
    auto_fetch_walking,  \* self.auto_fetch_walking (constructor argument)
    get_polylines,       \* plan_trip's argument
    request_counter,     \* self._request_counter
    pc,                  \* position of plan_trip
    outConL,             \* connections of res['outConL'] consumed so far
    trips,               \* plan_trip's local list `trips`
    common_data,         \* plan_trip's local `common_data`
    heap,                \* Polyline objects created by get_walking_details
    secIdx,              \* position of `for section in trip.sections`
    response,            \* the GisRoute response in flight
    fetchLog,            \* tokens of the GisRoute requests sent, in order
    failed,              \* <<trip, section>> positions whose fetch gave no Polyline
    \* ---- polyline codec
    cpc, coords, encoded, decoded,
    \* ---- resolver
    rpc, common, resolved,
    previous,            \* the CommonData the previous _parse_common_data call returned
    \* ---- assembler
    apc, conn, assembled,
    \* ---- get_walking_details on its own
    wpc, wresponse, details

planVars == <<auto_fetch_walking, get_polylines, request_counter, pc, outConL,
              trips, common_data, heap, secIdx, response, fetchLog, failed>>
codecVars == <<cpc, coords, encoded, decoded>>
resolverVars == <<rpc, common, resolved, previous>>
asmVars == <<apc, conn, assembled>>
walkVars == <<wpc, wresponse, details>>
vars == <<planVars, codecVars, resolverVars, asmVars, walkVars>>
notPlanVars == <<codecVars, resolverVars, asmVars, walkVars>>
notCodecVars == <<planVars, resolverVars, asmVars, walkVars>>
notResolverVars == <<planVars, codecVars, asmVars, walkVars>>
notAsmVars == <<planVars, codecVars, resolverVars, walkVars>>

\* ------------------------------------------------------------------ helpers
None == <<>>
Some(v) == <<v>>
\* dict.get(k, default)
Get(d, k, default) == IF k \in DOMAIN d THEN d[k] ELSE default
\* dict.get(k): None when the key is absent
GetOpt(d, k) == IF k \in DOMAIN d THEN Some(d[k]) ELSE None
\* All sequences over S of length at most n.
SeqsUpTo(S, n) == UNION {[1..k -> S] : k \in 0..n}
\* 1 << shift, with shift += 5 after each character of a group
ShiftAtMostFive(n) == IF n = 0 THEN 1 ELSE 32
RECURSIVE Pow2(_)
Pow2(n) == IF n = 0 THEN 1 ELSE 2 * Pow2(n - 1)

\* ============================================================ polyline codec
\* The characters of the raw strings handed to decode_polyline: '>' (below the
\* valid range), '?', '@', 'A' (payloads 0, 1, 2, no continuation), '_'
\* (payload 0, continuation) and DEL (above the valid range).
CodecAlphabet == {62, 63, 64, 65, 95, 127}
RawStrings == SeqsUpTo(CodecAlphabet, MaxLen)
\* the string "kuzrIqyjkAmCzWoD`YqC`^" of the demo's decoding test
GoldenVector ==
    <<107, 117, 122, 114, 73, 113, 121, 106, 107, 65, 109, 67, 122, 87, 111, 68,
      96, 89, 113, 67, 96, 94>>
\* Coordinates in 1e-5 degree: negative values, zero, and deltas of one, two
\* and three characters.
CoordVals == {-600, -16, 0, 1, 17}
CoordSeqs == SeqsUpTo(CoordVals \X CoordVals, MaxPts)

\* lat_delta = (~(result >> 1)) if (result & 1) else (result >> 1)
ZigZagNoSign(result) == result \div 2
ZigZag(result) ==
    IF result % 2 = 1 THEN -(result \div 2) - 1 ELSE result \div 2

\* if index >= len(encoded): break      (between latitude and longitude)
TailMissingNever(s, index) == FALSE
TailMissingPastEnd(s, index) == index > Len(s)
TailMissing(s, index) == index >= Len(s)

\* One variable-length group: the inner while loop. `index` is the 0-based
\* Python index; `result |= (b & 0x1f) << shift` adds, the payloads being
\* disjoint 5-bit fields, and b & 0x1f is b mod 32 for negative b as well.
RECURSIVE ReadGroup(_, _, _, _)
ReadGroup(s, index, shift, result) ==
    IF index >= Len(s)
    THEN [result |-> result, index |-> index]
    ELSE LET b == s[index + 1] - CharOffset
             r == result + (b % 32) * Pow2(shift)
         IN  IF b < ContinueFrom
             THEN [result |-> r, index |-> index + 1]
             ELSE ReadGroup(s, index + 1, shift + 5, r)

\* The outer while loop of decode_polyline.
RECURSIVE DecodeLoop(_, _, _, _, _)
DecodeLoop(s, index, lat, lon, coordinates) ==
    IF index >= Len(s)
    THEN coordinates
    ELSE LET g1 == ReadGroup(s, index, 0, 0)
             lat2 == lat + ZigZag(g1.result)
         IN  IF TailMissing(s, g1.index)
             THEN coordinates
             ELSE LET g2 == ReadGroup(s, g1.index, 0, 0)
                      lon2 == lon + ZigZag(g2.result)
                  IN  DecodeLoop(s, g2.index, lat2, lon2,
                                 Append(coordinates, <<lat2, lon2>>))

decode_polyline(s) ==
    IF s = <<>> THEN <<>> ELSE DecodeLoop(s, 0, 0, 0, <<>>)

\* The encoding of the specification (the repository holds no encoder):
\* delta, zig-zag, 5-bit groups with continuation bit, offset +63.
ZigZagEncode(v) == IF v < 0 THEN -2 * v - 1 ELSE 2 * v
RECURSIVE EncodeValue(_)
EncodeValue(u) ==
    IF u >= 32
    THEN <<32 + (u % 32) + 63>> \o EncodeValue(u \div 32)
    ELSE <<u + 63>>
RECURSIVE EncodeFrom(_, _, _)
EncodeFrom(cs, prevLat, prevLon) ==
    IF cs = <<>>
    THEN <<>>
    ELSE LET p == Head(cs)
         IN  EncodeValue(ZigZagEncode(p[1] - prevLat))
             \o EncodeValue(ZigZagEncode(p[2] - prevLon))
             \o EncodeFrom(Tail(cs), p[1], p[2])
encode_polyline(cs) == EncodeFrom(cs, 0, 0)

\* ---- the codec's state machine: an input is drawn, then decode_polyline (for a
\* coordinate sequence: the encoding, then decode_polyline) is applied.
CodecIdle == cpc = "idle" /\ coords = None /\ encoded = <<>> /\ decoded = None

CodecInit ==
    /\ decoded = None
    /\ \/ cpc = "raw" /\ coords = None /\ encoded \in RawStrings \cup {GoldenVector}
       \/ cpc = "coords" /\ coords \in {Some(cs) : cs \in CoordSeqs} /\ encoded = <<>>

Encode ==
    /\ cpc = "coords"
    /\ encoded' = encode_polyline(coords[1])
    /\ cpc' = "raw"
    /\ UNCHANGED <<coords, decoded>>
    /\ UNCHANGED notCodecVars

Decode ==
    /\ cpc = "raw"
    /\ decoded' = Some(decode_polyline(encoded))
    /\ cpc' = "done"
    /\ UNCHANGED <<coords, encoded>>
    /\ UNCHANGED notCodecVars

\* ======================================================== section/trip assembler
\* class TransportMode
Modes == {"WALK", "JNY", "BIKE", "CAR", "TAXI", "KISS", "PARK", "TETA"}

\* ServiceMessage.from_api
ServiceMessageFromApi(data) ==
    [type |-> Get(data, "type", ""),
     code |-> GetOpt(data, "code"),
     priority |-> Get(data, "prio", 0),
     text |-> GetOpt(data, "txtN"),
     text_normal |-> GetOpt(data, "txtS"),
     icon_index |-> GetOpt(data, "icoX"),
     style |-> GetOpt(data, "sty"),
     from_location_index |-> GetOpt(data, "fLocX"),
     to_location_index |-> GetOpt(data, "tLocX"),
     tags |-> Get(data, "tagL", <<>>),
     sort_order |-> Get(data, "sort", 0),
     rem_index |-> GetOpt(data, "remX")]

\* if 'msgL' in d: for msg_data in d['msgL']: ....append(ServiceMessage.from_api(msg_data))
MessagesOf(d) ==
    IF "msgL" \in DOMAIN d
    THEN [i \in 1..Len(d.msgL) |-> ServiceMessageFromApi(d.msgL[i])]
    ELSE <<>>

\* Stop.from_api
StopFromApi(data) ==
    [location_index |-> Get(data, "locX", -1),
     arrival_time |-> GetOpt(data, "aTimeS"),
     departure_time |-> GetOpt(data, "dTimeS"),
     arrival_platform |-> GetOpt(data, "aPlatfS"),
     departure_platform |-> GetOpt(data, "dPlatfS"),
     arrival_delay |-> GetOpt(data, "aDelayS"),
     departure_delay |-> GetOpt(data, "dDelayS"),
     cancelled |-> Get(data, "cancelled", FALSE),
     additional |-> Get(data, "additional", FALSE)]

\* ServiceDays.from_api
ServiceDaysFromApi(data) ==
    [regular |-> GetOpt(data, "sDaysR"),
     irregular |-> GetOpt(data, "sDaysI"),
     bitmask |-> GetOpt(data, "sDaysB")]

\* GisInfo(distance=..., duration_seconds=..., ctx=..., provider=...)
GisInfoOf(gis_data) ==
    [distance |-> Get(gis_data, "dist", 0),
     duration_seconds |-> Get(gis_data, "durS", ""),
     ctx |-> Get(gis_data, "ctx", ""),
     provider |-> Get(gis_data, "gisPrvr", "E"),
     segments |-> <<>>,
     polyline |-> 0]

\* if 'polyG' in jny_data and 'polyXL' in jny_data['polyG']
PolylineIndicesOf(jny_data) ==
    IF "polyG" \in DOMAIN jny_data /\ "polyXL" \in DOMAIN jny_data.polyG
    THEN jny_data.polyG.polyXL
    ELSE <<>>

\* if 'stopL' in jny_data: for stop_data in ...: stops.append(Stop.from_api(stop_data))
StopsOf(jny_data) ==
    IF "stopL" \in DOMAIN jny_data
    THEN [i \in 1..Len(jny_data.stopL) |-> StopFromApi(jny_data.stopL[i])]
    ELSE <<>>

\* Journey(jid=..., ..., ctx_recon=...) with the lists filled as each branch fills them
JourneyOf(jny_data, stops) ==
    [jid |-> Get(jny_data, "jid", ""),
     date |-> Get(jny_data, "date", ""),
     product_index |-> GetOpt(jny_data, "prodX"),
     direction_text |-> GetOpt(jny_data, "dirTxt"),
     direction_flag |-> GetOpt(jny_data, "dirFlg"),
     status |-> GetOpt(jny_data, "status"),
     is_reachable |-> Get(jny_data, "isRchbl", TRUE),
     stops |-> stops,
     polyline_indices |-> PolylineIndicesOf(jny_data),
     messages |-> MessagesOf(jny_data),
     subscription |-> Get(jny_data, "subscr", "N"),
     ctx_recon |-> GetOpt(jny_data, "ctxRecon")]

\* the TETA branch: no stop list is parsed
TetaJourney(jny_data) == JourneyOf(jny_data, <<>>)
\* the JNY branch
JnyJourney(jny_data) == JourneyOf(jny_data, StopsOf(jny_data))

\* if section.departure and 'dCaS' in section.departure
CallAheadIfSet(sec_data) ==
    /\ "dep" \in DOMAIN sec_data
    /\ "dCaS" \in DOMAIN sec_data.dep
    /\ sec_data.dep.dCaS
CallAhead(sec_data) ==
    /\ "dep" \in DOMAIN sec_data
    /\ DOMAIN sec_data.dep # {}
    /\ "dCaS" \in DOMAIN sec_data.dep

\* TransportMode(sec_data['type']) raises KeyError or ValueError
SectionRaisesWithoutType(sec_data) == "type" \notin DOMAIN sec_data
SectionRaises(sec_data) ==
    \/ "type" \notin DOMAIN sec_data
    \/ sec_data.type \notin Modes

\* if section.type == TransportMode.WALK and 'gis' in sec_data
WalkBranchAnyMode(sec_data) == "gis" \in DOMAIN sec_data
WalkBranch(sec_data) == sec_data.type = "WALK" /\ "gis" \in DOMAIN sec_data
\* elif section.type == TransportMode.TETA and 'jny' in sec_data
TetaBranch(sec_data) ==
    ~WalkBranch(sec_data) /\ sec_data.type = "TETA" /\ "jny" \in DOMAIN sec_data
\* elif section.type == TransportMode.JNY and 'jny' in sec_data
JnyBranch(sec_data) ==
    /\ ~WalkBranch(sec_data) /\ ~TetaBranch(sec_data)
    /\ sec_data.type = "JNY" /\ "jny" \in DOMAIN sec_data

\* the body of `for sec_data in conn.get('secL', [])`, for a section that raises nothing
ParseSection(sec_data) ==
    LET type == sec_data.type
        flagged == CallAhead(sec_data)
    IN  [type |-> type,
         departure |-> GetOpt(sec_data, "dep"),
         arrival |-> GetOpt(sec_data, "arr"),
         journey |->
            IF WalkBranch(sec_data) THEN None
            ELSE IF TetaBranch(sec_data) THEN Some(TetaJourney(sec_data.jny))
            ELSE IF JnyBranch(sec_data) THEN Some(JnyJourney(sec_data.jny))
            ELSE None,
         gis |->
            IF WalkBranch(sec_data) THEN Some(GisInfoOf(sec_data.gis)) ELSE None,
         polyline_indices |-> <<>>,
         messages |-> MessagesOf(sec_data),
         call_ahead_service |-> IF flagged THEN sec_data.dep.dCaS ELSE FALSE,
         booking_required |-> flagged,
         booking_deadline_minutes |-> IF flagged THEN Some(BookingDeadline) ELSE None]

\* fare_sets=[]  (the nested fareSetL is not read)
TariffResultWithFareSets(trf) ==
    [status_code |-> Get(trf, "statusCode", ""),
     fare_sets |-> Get(trf, "fareSetL", <<>>),
     external_content |-> GetOpt(trf, "extCont"),
     messages |-> Get(trf, "msgL", <<>>)]
\* TariffResult(status_code=..., fare_sets=[], external_content=..., messages=...)
TariffResultOf(trf) ==
    [status_code |-> Get(trf, "statusCode", ""),
     fare_sets |-> <<>>,
     external_content |-> GetOpt(trf, "extCont"),
     messages |-> Get(trf, "msgL", <<>>)]

\* Trip(id=..., ..., rec_state=...) over the sections assembled from secL
TripOf(c, secL) ==
    [id |-> Get(c, "cid", ""),
     date |-> Get(c, "date", ""),
     duration |-> Get(c, "dur", ""),
     changes |-> Get(c, "chg", 0),
     departure_time |-> Get(Get(c, "dep", <<>>), "dTimeS", ""),
     arrival_time |-> Get(Get(c, "arr", <<>>), "aTimeS", ""),
     sections |-> [i \in 1..Len(secL) |-> ParseSection(secL[i])],
     service_days |->
        IF "sDays" \in DOMAIN c THEN Some(ServiceDaysFromApi(c.sDays)) ELSE None,
     tariff_result |->
        IF "trfRes" \in DOMAIN c THEN Some(TariffResultOf(c.trfRes)) ELSE None,
     messages |-> MessagesOf(c),
     subscription |-> Get(c, "conSubscr", "N"),
     checksum |-> GetOpt(c, "cksum"),
     checksum_dti |-> GetOpt(c, "cksumDti"),
     ctx_recon |-> GetOpt(c, "ctxRecon"),
     rec_state |-> Get(c, "recState", "U")]

\* _parse_trip: None when the try block raises, else the Trip
ParseTripSkippingSections(c) ==
    LET secL == Get(c, "secL", <<>>)
    IN  Some(TripOf(c, SelectSeq(secL, LAMBDA sec_data : ~SectionRaises(sec_data))))
_parse_trip(c) ==
    LET secL == Get(c, "secL", <<>>)
    IN  IF \E i \in 1..Len(secL) : SectionRaises(secL[i])
        THEN None
        ELSE Some(TripOf(c, secL))

\* ========================================================= shared-table resolver
\* Coordinate.from_api; lat and lon are kept as the integers the code divides by 1e6
CoordinateFromApi(crd) ==
    [lat |-> Get(crd, "y", 0),
     lon |-> Get(crd, "x", 0),
     layer_index |-> Get(crd, "layerX", 0),
     crd_sys_index |-> Get(crd, "crdSysX", 0)]

\* Coordinate(lat, lon) of a decoded point; lat and lon in 1e-5 degree
CoordinateOf(point) ==
    [lat |-> point[1], lon |-> point[2], layer_index |-> 0, crd_sys_index |-> 0]

\* Location.from_api
LocationFromApi(data) ==
    [lid |-> Get(data, "lid", ""),
     name |-> Get(data, "name", ""),
     type |-> Get(data, "type", ""),
     coordinate |->
        IF "crd" \in DOMAIN data
        THEN CoordinateFromApi(data.crd) ELSE CoordinateOf(<<0, 0>>),
     ext_id |-> GetOpt(data, "extId"),
     state |-> Get(data, "state", "F"),
     weight |-> Get(data, "wt", 0),
     is_main_mast |-> Get(data, "isMainMast", FALSE),
     product_classes |-> Get(data, "pCls", 0),
     product_refs |-> Get(data, "pRefL", <<>>),
     icon_index |-> GetOpt(data, "icoX"),
     house_number |-> GetOpt(data, "H")]

\* Product.from_api;  number = data.get('number') or ctx.get('num')
ProductFromApi(data) ==
    LET ctx == Get(data, "prodCtx", <<>>)
        number == GetOpt(data, "number")
    IN  [pid |-> GetOpt(data, "pid"),
         name |-> Get(data, "name", ""),
         name_short |-> GetOpt(data, "nameS"),
         number |-> IF number = None \/ number = Some("")
                    THEN GetOpt(ctx, "num") ELSE number,
         line |-> GetOpt(ctx, "line"),
         line_id |-> GetOpt(ctx, "lineId"),
         category |-> GetOpt(ctx, "catIn"),
         category_out |-> GetOpt(ctx, "catOut"),
         category_code |-> GetOpt(ctx, "catCode"),
         cls |-> Get(data, "cls", 0),
         operator_index |-> GetOpt(data, "oprX"),
         admin |-> GetOpt(ctx, "admin"),
         match_id |-> GetOpt(ctx, "matchId"),
         icon_index |-> GetOpt(data, "icoX"),
         him_ids |-> Get(data, "himIdL", <<>>)]

\* Polyline(encoded=poly_data['crdEncYX'], coordinates=[Coordinate(lat, lon) ...], ...)
PolylineOf(poly_data) ==
    LET coords_ == decode_polyline(poly_data.crdEncYX)
    IN  [encoded |-> poly_data.crdEncYX,
         coordinates |-> [i \in 1..Len(coords_) |-> CoordinateOf(coords_[i])],
         location_refs |-> Get(poly_data, "ppLocRefL", <<>>),
         draw_style_index |-> GetOpt(poly_data, "lDrawStyleX"),
         delta |-> Get(poly_data, "delta", TRUE),
         dimension |-> Get(poly_data, "dim", 2),
         encoding_start |-> GetOpt(poly_data, "crdEncS"),
         encoding_format |-> GetOpt(poly_data, "crdEncF")]

\* Operator(name=..., icon_index=...)
OperatorOf(op_data) ==
    [name |-> Get(op_data, "name", ""), icon_index |-> GetOpt(op_data, "icoX")]

\* Icon.from_api; a Color is kept as the dict it is built from
IconFromApi(data) ==
    [resource |-> Get(data, "res", ""),
     text |-> GetOpt(data, "txt"),
     foreground |-> GetOpt(data, "fg"),
     background |-> GetOpt(data, "bg")]

\* DrawStyle.from_api
DrawStyleFromApi(data) ==
    [type |-> Get(data, "type", "SOLID"),
     icon_index |-> GetOpt(data, "sIcoX"),
     background |-> GetOpt(data, "bg")]

\* if 'locL' in common: for i, loc_data in enumerate(...): data.locations[i] = ...
LocationTableWithProducts(c) ==
    IF "locL" \in DOMAIN c /\ "prodL" \in DOMAIN c
    THEN [i \in 0..(Len(c.locL) - 1) |-> LocationFromApi(c.locL[i + 1])]
    ELSE <<>>
LocationTable(c) ==
    IF "locL" \in DOMAIN c
    THEN [i \in 0..(Len(c.locL) - 1) |-> LocationFromApi(c.locL[i + 1])]
    ELSE <<>>

\* if 'prodL' in common: for i, prod_data in enumerate(...): data.products[i] = ...
ProductTable(c) ==
    IF "prodL" \in DOMAIN c
    THEN [i \in 0..(Len(c.prodL) - 1) |-> ProductFromApi(c.prodL[i + 1])]
    ELSE <<>>

\* the appended lists: opL, remL, icoL, lDrawStyleL
OperatorList(c) ==
    IF "opL" \in DOMAIN c
    THEN [i \in 1..Len(c.opL) |-> OperatorOf(c.opL[i])] ELSE <<>>
RemarkList(c) ==
    IF "remL" \in DOMAIN c
    THEN [i \in 1..Len(c.remL) |-> ServiceMessageFromApi(c.remL[i])] ELSE <<>>
IconList(c) ==
    IF "icoL" \in DOMAIN c
    THEN [i \in 1..Len(c.icoL) |-> IconFromApi(c.icoL[i])] ELSE <<>>
DrawStyleList(c) ==
    IF "lDrawStyleL" \in DOMAIN c
    THEN [i \in 1..Len(c.lDrawStyleL) |-> DrawStyleFromApi(c.lDrawStyleL[i])] ELSE <<>>

\* the polyL loop: only an entry with 'crdEncYX' is stored, under its position
PolylineTable(d) ==
    IF "polyL" \in DOMAIN d
    THEN [i \in {j \in 0..(Len(d.polyL) - 1) : "crdEncYX" \in DOMAIN d.polyL[j + 1]}
            |-> PolylineOf(d.polyL[i + 1])]
    ELSE <<>>

\* CommonData()
EmptyCommonData ==
    [locations |-> <<>>, products |-> <<>>, polylines |-> <<>>,
     operators |-> <<>>, remarks |-> <<>>, him_messages |-> <<>>,
     icons |-> <<>>, directions |-> <<>>, draw_styles |-> <<>>,
     layers |-> <<>>, coordinate_systems |-> <<>>, walking_polylines |-> <<>>]

\* data = CommonData(): every field starts from its default_factory
ParseCommonDataSharedCache(c) ==
    [locations |-> LocationTable(c),
     products |-> ProductTable(c),
     polylines |-> PolylineTable(c),
     operators |-> OperatorList(c),
     remarks |-> RemarkList(c),
     him_messages |-> <<>>,
     icons |-> IconList(c),
     directions |-> Get(c, "dirL", <<>>),
     draw_styles |-> DrawStyleList(c),
     layers |-> Get(c, "layerL", <<>>),
     coordinate_systems |-> Get(c, "crdSysL", <<>>),
     walking_polylines |->
        IF resolved = None THEN <<>> ELSE resolved[1].walking_polylines]
_parse_common_data(c) ==
    [locations |-> LocationTable(c),
     products |-> ProductTable(c),
     polylines |-> PolylineTable(c),
     operators |-> OperatorList(c),
     remarks |-> RemarkList(c),
     him_messages |-> <<>>,
     icons |-> IconList(c),
     directions |-> Get(c, "dirL", <<>>),
     draw_styles |-> DrawStyleList(c),
     layers |-> Get(c, "layerL", <<>>),
     coordinate_systems |-> Get(c, "crdSysL", <<>>),
     walking_polylines |-> <<>>]

\* ---- the resolver's state machine: a common block is drawn and resolved; the
\* client may then send requests and fill the cache of the CommonData returned,
\* and the block is resolved a second time.
\* An optional dict key: absent, or present with a value of S.
Opt(k, S) == {<<>>} \cup {k :> v : v \in S}

LocRecs ==
    {[lid |-> "L1", name |-> "Hovedbanegaard",
      crd |-> [x |-> 12564000, y |-> 55673000]],
     [name |-> "Valby"]}
ProdRecs ==
    {[name |-> "Bus 1A", prodCtx |-> [line |-> "1A", num |-> "11"]],
     [name |-> "IC", number |-> "7"]}
\* "AA" and "@?A" carry geometry; the third entry carries a draw style only
PolyRecs ==
    {[crdEncYX |-> <<65, 65>>],
     [crdEncYX |-> <<64, 63, 65>>, lDrawStyleX |-> 0],
     [lDrawStyleX |-> 1]}
\* common blocks whose locL, prodL and polyL lists vary in length and content
ListBlocks ==
    {l @@ p @@ y : l \in Opt("locL", SeqsUpTo(LocRecs, MaxN)),
                   p \in Opt("prodL", SeqsUpTo(ProdRecs, MaxN)),
                   y \in Opt("polyL", SeqsUpTo(PolyRecs, MaxN))}
\* one value for each list field of a common block
FieldValues ==
    [locL |-> <<[lid |-> "L1", name |-> "Hovedbanegaard"]>>,
     prodL |-> <<[name |-> "IC", number |-> "7"]>>,
     polyL |-> <<[crdEncYX |-> <<65, 65>>]>>,
     opL |-> <<[name |-> "DSB", icoX |-> 0]>>,
     remL |-> <<[type |-> "A", code |-> "OA", txtN |-> "Cykler kan medtages"]>>,
     icoL |-> <<[res |-> "prod_ic", txt |-> "IC"]>>,
     dirL |-> <<[txt |-> "Valby", flg |-> "1"]>>,
     lDrawStyleL |-> <<[sIcoX |-> 0, type |-> "SOLID"]>>,
     layerL |-> <<[id |-> "standard", index |-> 0]>>,
     crdSysL |-> <<[id |-> "standard", type |-> "WGS84"]>>]
\* common blocks in which any subset of the list fields is present
FieldBlocks ==
    {[f \in fields |-> FieldValues[f]] : fields \in SUBSET DOMAIN FieldValues}
CommonBlocks == ListBlocks \cup FieldBlocks

ResolverIdle == rpc = "idle" /\ common = <<>> /\ resolved = None /\ previous = None

ResolverInit ==
    rpc = "start" /\ common \in CommonBlocks /\ resolved = None /\ previous = None

Resolve ==
    /\ rpc = "start"
    /\ resolved' = Some(_parse_common_data(common))
    /\ rpc' = "done"
    /\ UNCHANGED <<common, previous>>
    /\ UNCHANGED notResolverVars

\* between two calls the client sends a request: _create_request counts it
OtherRequest ==
    /\ rpc = "done"
    /\ request_counter < MaxN
    /\ request_counter' = request_counter + 1
    /\ UNCHANGED <<auto_fetch_walking, get_polylines, pc, outConL, trips, common_data,
                   heap, secIdx, response, fetchLog, failed>>
    /\ UNCHANGED <<codecVars, resolverVars, asmVars, walkVars>>

\* between two calls a cache fill stores a walking Polyline in the CommonData the
\* first call returned:  common_data.walking_polylines[section.gis.ctx] = polyline
CacheFill ==
    /\ rpc = "done"
    /\ resolved[1].walking_polylines = <<>>
    /\ heap' = Append(heap, PolylineOf([crdEncYX |-> <<65, 64>>]))
    /\ resolved' = [resolved EXCEPT ![1].walking_polylines = ("a" :> (Len(heap) + 1))]
    /\ UNCHANGED <<rpc, common, previous>>
    /\ UNCHANGED <<auto_fetch_walking, get_polylines, request_counter, pc, outConL,
                   trips, common_data, secIdx, response, fetchLog, failed>>
    /\ UNCHANGED <<codecVars, asmVars, walkVars>>

\* the same common block is resolved again
ResolveAgain ==
    /\ rpc = "done"
    /\ previous' = resolved
    /\ resolved' = Some(_parse_common_data(common))
    /\ rpc' = "again"
    /\ UNCHANGED common
    /\ UNCHANGED notResolverVars

\* ---- the assembler's state machine: a connection record is drawn, then assembled.
DepRecs == {[locX |-> 0, dTimeS |-> "080000"],
            [locX |-> 0, dCaS |-> TRUE],
            [locX |-> 0, dCaS |-> FALSE]}
GisRec == [dist |-> 350, durS |-> "000500", ctx |-> "a"]
JnyRec ==
    [jid |-> "1|234|0|86", prodX |-> 0, dirTxt |-> "Valby",
     stopL |-> <<[locX |-> 0, dTimeS |-> "080000"], [locX |-> 1]>>,
     polyG |-> [polyXL |-> <<1, 0>>],
     msgL |-> <<[type |-> "REM", code |-> "teletaxi"]>>]
MsgRec == [type |-> "HIM", txtN |-> "Sporarbejde"]
AsmSecRecords ==
    {[arr |-> [locX |-> 1]] @@ t @@ d @@ g @@ j @@ m :
        t \in Opt("type", Modes \cup {"XXX"}),
        d \in Opt("dep", DepRecs),
        g \in Opt("gis", {GisRec}),
        j \in Opt("jny", {JnyRec}),
        m \in Opt("msgL", {<<MsgRec>>})}
TrfRecs ==
    {[statusCode |-> "OK", fareSetL |-> <<[name |-> "Voksen", price |-> 2400]>>,
      extCont |-> [text |-> "24 kr."]],
     [fareSetL |-> <<>>]}
AsmConns ==
    {[cid |-> 1, dur |-> "003000"] @@ sl @@ f :
        sl \in Opt("secL", SeqsUpTo(AsmSecRecords, MaxAsmSecs)),
        f \in Opt("trfRes", TrfRecs)}

AsmIdle == apc = "idle" /\ conn = <<>> /\ assembled = None

AsmInit == apc = "start" /\ conn \in AsmConns /\ assembled = None

Assemble ==
    /\ apc = "start"
    /\ assembled' = _parse_trip(conn)
    /\ apc' = "done"
    /\ UNCHANGED conn
    /\ UNCHANGED notAsmVars

\* ============================================== walking-route cache and plan_trip
\* WalkingSegment.from_api
WalkingSegmentFromApi(data) ==
    [name |-> GetOpt(data, "name"),
     instruction |-> GetOpt(data, "manTx"),
     orientation |-> GetOpt(data, "ori"),
     route_type |-> GetOpt(data, "rType"),
     distance |-> Get(data, "dist", 0),
     poly_start |-> Get(data, "polyS", 0),
     poly_end |-> Get(data, "polyE", 0),
     icon_index |-> GetOpt(data, "icoX")]

RECURSIVE Flatten(_)
Flatten(ss) == IF ss = <<>> THEN <<>> ELSE Head(ss) \o Flatten(Tail(ss))

\* the services of a response that get_walking_details reads
GisRouteResults(data) ==
    LET svcs == SelectSeq(data.svcResL,
                    LAMBDA svc : Get(svc, "meth", "") = "GisRoute" /\ "res" \in DOMAIN svc)
    IN  [i \in 1..Len(svcs) |-> svcs[i].res]

\* the polyL entries with geometry, in the order the loops visit them
GeometryEntries(results) ==
    Flatten([i \in 1..Len(results) |->
        IF "common" \in DOMAIN results[i] /\ "polyL" \in DOMAIN results[i].common
        THEN SelectSeq(results[i].common.polyL,
                       LAMBDA poly_data : "crdEncYX" \in DOMAIN poly_data)
        ELSE <<>>])

\* the segL entries, in the order the loops visit them
SegmentEntries(results) ==
    Flatten([i \in 1..Len(results) |->
        IF "conL" \in DOMAIN results[i]
        THEN Flatten([c \in 1..Len(results[i].conL) |->
                LET secL == Get(results[i].conL[c], "secL", <<>>)
                IN  Flatten([k \in 1..Len(secL) |->
                        IF "gis" \in DOMAIN secL[k] /\ "segL" \in DOMAIN secL[k].gis
                        THEN secL[k].gis.segL ELSE <<>>])])
        ELSE <<>>])

\* get_walking_details, from the response _make_request returns (None: the
\* transport failed): (coordinates, segments, polyline)
NoWalkingDetails == [coordinates |-> <<>>, segments |-> <<>>, polyline |-> None]
WalkingDetailsOf(results) ==
    LET geo == GeometryEntries(results)
        seg == SegmentEntries(results)
    IN  [coordinates |->
            Flatten([i \in 1..Len(geo) |->
                LET pts == decode_polyline(geo[i].crdEncYX)
                IN  [k \in 1..Len(pts) |-> CoordinateOf(pts[k])]]),
         segments |-> [i \in 1..Len(seg) |-> WalkingSegmentFromApi(seg[i])],
         polyline |-> IF geo = <<>> THEN None ELSE Some(PolylineOf(geo[Len(geo)]))]
WalkingDetailsEmptyPolyline(resp) ==
    [coordinates |-> <<>>, segments |-> <<>>,
     polyline |-> Some(PolylineOf([crdEncYX |-> <<>>]))]
get_walking_details(resp) ==
    IF resp = None \/ "svcResL" \notin DOMAIN resp[1]
    THEN NoWalkingDetails
    ELSE WalkingDetailsOf(GisRouteResults(resp[1]))

\* ---- the inputs of plan_trip
\* route-context tokens
Tokens == {"a", "b"}
WalkRec(ctx) ==
    [type |-> "WALK", dep |-> [locX |-> 0], arr |-> [locX |-> 1],
     gis |-> [dist |-> 350, durS |-> "000500", ctx |-> ctx]]
RideRec == [type |-> "JNY", dep |-> [locX |-> 1], arr |-> [locX |-> 0], jny |-> JnyRec]
\* a section record without the `type` field
UntypedRec == [dep |-> [locX |-> 0], arr |-> [locX |-> 1]]
PlanSecRecords == {WalkRec(t) : t \in Tokens} \cup {RideRec, UntypedRec}
\* the k-th connection of outConL, of at most n sections; connection ids are
\* unique in a result set
PlanConns(k, n) == {[cid |-> k, secL |-> sl] : sl \in SeqsUpTo(PlanSecRecords, n)}
\* a second family of section records: a WALK section with a token, without
\* `gis`, with a `gis` that holds no token, a BIKE section with a `gis` that
\* holds a token, and a section of a mode that TransportMode does not declare
WalkNoGisRec == [type |-> "WALK", dep |-> [locX |-> 0], arr |-> [locX |-> 1]]
WalkNoTokenRec ==
    [type |-> "WALK", dep |-> [locX |-> 0], arr |-> [locX |-> 1],
     gis |-> [dist |-> 80, durS |-> "000100"]]
BikeGisRec ==
    [type |-> "BIKE", dep |-> [locX |-> 0], arr |-> [locX |-> 1],
     gis |-> [dist |-> 900, durS |-> "000400", ctx |-> "b"]]
UnknownModeRec == [type |-> "SHIP", dep |-> [locX |-> 0], arr |-> [locX |-> 1]]
ModeSecRecords ==
    {WalkRec("a"), WalkNoGisRec, WalkNoTokenRec, BikeGisRec, UnknownModeRec}
ModeConns(k, n) == {[cid |-> k, secL |-> sl] : sl \in SeqsUpTo(ModeSecRecords, n)}
RECURSIVE TotalSections(_)
TotalSections(conL) ==
    IF conL = <<>> THEN 0 ELSE Len(Head(conL).secL) + TotalSections(Tail(conL))
\* the `common` block of the TripSearch result
PlanCommon ==
    [locL |-> <<[name |-> "Hovedbanegaard"], [name |-> "Valby"]>>,
     polyL |-> <<[crdEncYX |-> <<65, 65>>], [lDrawStyleX |-> 1]>>]
\* the GisRoute responses: the transport fails, the response carries segments
\* but no geometry, the response carries geometry and segments
SegRec == [name |-> "Vesterbrogade", manTx |-> "Drej til venstre", dist |-> 120,
           polyS |-> 0, polyE |-> 1]
GisRes(polyL) ==
    [svcResL |-> <<[meth |-> "GisRoute",
                    res |-> [common |-> [polyL |-> polyL],
                             conL |-> <<[secL |-> <<[gis |-> [segL |-> <<SegRec>>]]>>]>>]]>>]
GisResponses ==
    {None,
     Some(GisRes(<<[lDrawStyleX |-> 0]>>)),
     Some(GisRes(<<[crdEncYX |-> <<65, 64>>]>>))}
\* the response carries a polyL entry with crdEncYX
HasGeometry(resp) ==
    /\ resp # None
    /\ \E i \in 1..Len(resp[1].svcResL) :
         \E k \in 1..Len(resp[1].svcResL[i].res.common.polyL) :
            "crdEncYX" \in DOMAIN resp[1].svcResL[i].res.common.polyL[k]

\* ---- get_walking_details on its own: a response of _make_request is drawn, then
\* the request is counted and the response read.
\* the `res` of a service result: with or without `common`, `common` with or
\* without `polyL`, with or without `conL`
WalkResults ==
    {c @@ k :
        c \in Opt("common", {[polyL |-> pl] : pl \in SeqsUpTo(PolyRecs, MaxN)}
                               \cup {[remL |-> <<>>]}),
        k \in Opt("conL", {<<[secL |-> <<[gis |-> [segL |-> <<SegRec>>]]>>]>>})}
\* the transport failed, the response has no svcResL, the response holds one
\* service result
WalkResponses ==
    {None, Some([err |-> "AUTH"])}
    \cup {Some([svcResL |-> <<[meth |-> m] @@ r>>]) :
             m \in {"GisRoute", "TripSearch"}, r \in Opt("res", WalkResults)}

WalkIdle == wpc = "idle" /\ wresponse = None /\ details = None

WalkInit == wpc = "start" /\ wresponse \in WalkResponses /\ details = None

FetchDetails ==
    /\ wpc = "start"
    /\ request_counter' = request_counter + 1
    /\ details' = Some(get_walking_details(wresponse))
    /\ wpc' = "done"
    /\ UNCHANGED wresponse
    /\ UNCHANGED <<auto_fetch_walking, get_polylines, pc, outConL, trips, common_data,
                   heap, secIdx, response, fetchLog, failed>>
    /\ UNCHANGED <<codecVars, resolverVars, asmVars>>

\* ---- plan_trip
PlanIdle ==
    /\ auto_fetch_walking = TRUE /\ get_polylines = TRUE /\ request_counter = 0
    /\ pc = "off" /\ outConL = <<>> /\ trips = <<>> /\ common_data = EmptyCommonData
    /\ heap = <<>> /\ secIdx = 0 /\ response = None /\ fetchLog = <<>> /\ failed = {}

\* RejseplanenAPI(auto_fetch_walking=...)
PlanInit ==
    /\ auto_fetch_walking \in BOOLEAN
    /\ get_polylines = TRUE
    /\ request_counter = 0
    /\ pc = "idle" /\ outConL = <<>> /\ trips = <<>> /\ common_data = EmptyCommonData
    /\ heap = <<>> /\ secIdx = 0 /\ response = None /\ fetchLog = <<>> /\ failed = {}

\* plan_trip(origin, destination, get_polylines=gp) with Location arguments: the
\* TripSearch request is sent and its response has no svcResL (or the transport
\* failed): plan_trip returns [], CommonData(), {}
TripSearchFails(gp) ==
    /\ pc = "idle"
    /\ get_polylines' = gp
    /\ request_counter' = request_counter + 1
    /\ pc' = "done"
    /\ UNCHANGED <<auto_fetch_walking, outConL, trips, common_data, heap, secIdx,
                   response, fetchLog, failed>>
    /\ UNCHANGED notPlanVars

\* ... or the response holds a TripSearch result `res`, with or without `common`
TripSearchReturns(gp, res) ==
    /\ pc = "idle"
    /\ get_polylines' = gp
    /\ request_counter' = request_counter + 1
    /\ common_data' = IF "common" \in DOMAIN res
                      THEN _parse_common_data(res.common) ELSE EmptyCommonData
    /\ pc' = "parse"
    /\ UNCHANGED <<auto_fetch_walking, outConL, trips, heap, secIdx, response,
                   fetchLog, failed>>
    /\ UNCHANGED notPlanVars

\* the section `for section in trip.sections` is at
CurTrip == trips[Len(trips)]
CurSection == CurTrip.sections[secIdx]
\* if section.type == TransportMode.WALK and section.gis and section.gis.ctx
FetchableWithoutToken(section) == section.type = "WALK" /\ section.gis # None
Fetchable(section) ==
    section.type = "WALK" /\ section.gis # None /\ section.gis[1].ctx # ""
\* if section.gis.ctx not in common_data.walking_polylines
InCacheNever(cache, ctx) == FALSE
InCache(cache, ctx) == ctx \in DOMAIN cache
\* section.gis.polyline = common_data.walking_polylines[section.gis.ctx]:
\* the reference attached, and the heap after it
AttachCopy(h, cache, ctx) ==
    [heap |-> Append(h, h[cache[ctx]]), ref |-> Len(h) + 1]
AttachCached(h, cache, ctx) == [heap |-> h, ref |-> cache[ctx]]

\* common_data.walking_polylines[section.gis.ctx] = polyline
StoreResettingPolylines(data, ctx, ref) ==
    [data EXCEPT !.polylines = <<>>, !.walking_polylines = (ctx :> ref) @@ @]
StoreAsOnlyEntry(data, ctx, ref) == [data EXCEPT !.walking_polylines = ctx :> ref]
StoreInCache(data, ctx, ref) ==
    [data EXCEPT !.walking_polylines = (ctx :> ref) @@ @]
\* trips.append(trip)
PrependTrip(ts, trip) == <<trip>> \o ts
AppendTrip(ts, trip) == Append(ts, trip)

\* the section loop moves on; after the last section the connection loop goes on
AdvanceToNextTrip == pc' = "parse" /\ secIdx' = 0
Advance ==
    IF secIdx < Len(CurTrip.sections)
    THEN pc' = "walk" /\ secIdx' = secIdx + 1
    ELSE pc' = "parse" /\ secIdx' = 0

\* one iteration of `for conn in res.get('outConL', [])` up to the section loop
ParseTrip(c) ==
    /\ pc = "parse"
    /\ Len(outConL) < MaxTrips
    /\ outConL' = Append(outConL, c)
    /\ LET trip == _parse_trip(c)
       IN  IF trip = None
           THEN UNCHANGED <<trips, pc, secIdx>>
           ELSE /\ trips' = AppendTrip(trips, trip[1])
                /\ IF auto_fetch_walking /\ get_polylines /\ trip[1].sections # <<>>
                   THEN pc' = "walk" /\ secIdx' = 1
                   ELSE UNCHANGED <<pc, secIdx>>
    /\ UNCHANGED <<auto_fetch_walking, get_polylines, request_counter, common_data,
                   heap, response, fetchLog, failed>>
    /\ UNCHANGED notPlanVars

\* a section that is no WALK section with a token
SkipSection ==
    /\ pc = "walk"
    /\ ~Fetchable(CurSection)
    /\ Advance
    /\ UNCHANGED <<auto_fetch_walking, get_polylines, request_counter, outConL, trips,
                   common_data, heap, response, fetchLog, failed>>
    /\ UNCHANGED notPlanVars

\* the else branch: the token is in the cache
UseCached ==
    /\ pc = "walk"
    /\ Fetchable(CurSection)
    /\ LET ctx == CurSection.gis[1].ctx
           cache == common_data.walking_polylines
       IN  /\ InCache(cache, ctx)
           /\ LET a == AttachCached(heap, cache, ctx)
              IN  /\ heap' = a.heap
                  /\ trips' = [trips EXCEPT
                        ![Len(trips)].sections[secIdx].gis[1].polyline = a.ref]
    /\ Advance
    /\ UNCHANGED <<auto_fetch_walking, get_polylines, request_counter, outConL,
                   common_data, response, fetchLog, failed>>
    /\ UNCHANGED notPlanVars

\* get_walking_details(section.gis.ctx) up to _make_request: the GisRoute request
\* is sent; `resp` is what _make_request will return
SendGisRoute(resp) ==
    /\ pc = "walk"
    /\ Fetchable(CurSection)
    /\ ~InCache(common_data.walking_polylines, CurSection.gis[1].ctx)
    /\ request_counter' = request_counter + 1
    /\ fetchLog' = Append(fetchLog, CurSection.gis[1].ctx)
    /\ response' = Some(resp)
    /\ pc' = "fetching"
    /\ UNCHANGED <<auto_fetch_walking, get_polylines, outConL, trips, common_data,
                   heap, secIdx, failed>>
    /\ UNCHANGED notPlanVars

\* the rest of get_walking_details and `if polyline:` with its three assignments
ReceiveGisRoute ==
    /\ pc = "fetching"
    /\ LET ctx == CurSection.gis[1].ctx
           d == get_walking_details(response[1])
           ref == Len(heap) + 1
       IN  IF d.polyline # None
           THEN /\ heap' = Append(heap, d.polyline[1])
                /\ common_data' = StoreInCache(common_data, ctx, ref)
                /\ trips' = [trips EXCEPT
                      ![Len(trips)].sections[secIdx].gis[1].polyline = ref,
                      ![Len(trips)].sections[secIdx].gis[1].segments = d.segments]
           ELSE UNCHANGED <<heap, common_data, trips>>
    /\ failed' = IF HasGeometry(response[1])
                 THEN failed ELSE failed \cup {<<CurTrip.id, secIdx>>}
    /\ response' = None
    /\ Advance
    /\ UNCHANGED <<auto_fetch_walking, get_polylines, request_counter, outConL,
                   fetchLog>>
    /\ UNCHANGED notPlanVars

\* outConL is exhausted: plan_trip returns trips, common_data, full_response
ReturnCountingRequest ==
    /\ pc = "parse"
    /\ pc' = "done"
    /\ request_counter' = request_counter + 1
    /\ UNCHANGED <<auto_fetch_walking, get_polylines, outConL, trips,
                   common_data, heap, secIdx, response, fetchLog, failed>>
    /\ UNCHANGED notPlanVars
Return ==
    /\ pc = "parse"
    /\ pc' = "done"
    /\ UNCHANGED <<auto_fetch_walking, get_polylines, request_counter, outConL, trips,
                   common_data, heap, secIdx, response, fetchLog, failed>>
    /\ UNCHANGED notPlanVars

\* ==================================================================== specifications
\* plan_trip over one TripSearch result set
Init == PlanInit /\ CodecIdle /\ ResolverIdle /\ AsmIdle /\ WalkIdle
Next ==
    \/ \E gp \in BOOLEAN : TripSearchFails(gp)
    \/ \E gp \in BOOLEAN : TripSearchReturns(gp, [common |-> PlanCommon])
    \/ \E c \in PlanConns(Len(outConL) + 1, MaxSections - TotalSections(outConL)) :
          ParseTrip(c)
    \/ SkipSection
    \/ UseCached
    \/ \E resp \in GisResponses : SendGisRoute(resp)
    \/ ReceiveGisRoute
    \/ Return
Spec == Init /\ [][Next]_vars

\* plan_trip over result sets of the second family of section records
InitModes == Init
NextModes ==
    \/ \E gp \in BOOLEAN : TripSearchFails(gp)
    \/ \E gp \in BOOLEAN : TripSearchReturns(gp, [common |-> PlanCommon])
    \/ \E c \in ModeConns(Len(outConL) + 1, MaxSections - TotalSections(outConL)) :
          ParseTrip(c)
    \/ SkipSection
    \/ UseCached
    \/ \E resp \in GisResponses : SendGisRoute(resp)
    \/ ReceiveGisRoute
    \/ Return
SpecModes == InitModes /\ [][NextModes]_vars

\* decode_polyline over raw strings and over encoded coordinate sequences
InitCodec == CodecInit /\ PlanIdle /\ ResolverIdle /\ AsmIdle /\ WalkIdle
NextCodec == Encode \/ Decode
SpecCodec == InitCodec /\ [][NextCodec]_vars

\* _parse_common_data over common blocks
InitResolver == ResolverInit /\ PlanIdle /\ CodecIdle /\ AsmIdle /\ WalkIdle
NextResolver == Resolve \/ OtherRequest \/ CacheFill \/ ResolveAgain
SpecResolver == InitResolver /\ [][NextResolver]_vars

\* _parse_trip over connection records
InitAsm == AsmInit /\ PlanIdle /\ CodecIdle /\ ResolverIdle /\ WalkIdle
NextAsm == Assemble
SpecAsm == InitAsm /\ [][NextAsm]_vars

\* get_walking_details over GisRoute responses
InitWalk == WalkInit /\ PlanIdle /\ CodecIdle /\ ResolverIdle /\ AsmIdle
NextWalk == FetchDetails
SpecWalk == InitWalk /\ [][NextWalk]_vars

\* ============================================================================ claims
\* positions <<t, s>> of the sections of the trips assembled so far
SectionPositions ==
    UNION {{<<t, s>> : s \in 1..Len(trips[t].sections)} : t \in 1..Len(trips)}
SectionAt(p) == trips[p[1]].sections[p[2]]
\* positions of the WALK sections that have a Polyline attached
AttachedPositions ==
    {p \in SectionPositions : SectionAt(p).gis # None /\ SectionAt(p).gis[1].polyline # 0}
TokenAt(p) == SectionAt(p).gis[1].ctx
RefAt(p) == SectionAt(p).gis[1].polyline
\* number of GisRoute requests sent for a token
FetchCount(t) == Cardinality({i \in 1..Len(fetchLog) : fetchLog[i] = t})

\* C1 (as stated): during one plan_trip result set, at most one walking-detail
\* fetch is issued for each route-context token, whatever each fetch returns.
C1_AtMostOneFetchPerToken == \A t \in Tokens : FetchCount(t) <= 1

\* C2: any two WALK sections, of the same trip or of different trips, that carry
\* the same token and have a Polyline attached reference the identical Polyline
\* object, and that object is the one stored under the token in
\* common_data.walking_polylines.
C2_SharedPolyline ==
    /\ \A p \in AttachedPositions :
          /\ TokenAt(p) \in DOMAIN common_data.walking_polylines
          /\ common_data.walking_polylines[TokenAt(p)] = RefAt(p)
    /\ \A p, q \in AttachedPositions : TokenAt(p) = TokenAt(q) => RefAt(p) = RefAt(q)
\* plan_trip has returned two trips whose WALK sections share a token and both
\* have a Polyline attached
C2_Witness ==
    /\ pc = "done"
    /\ \E p, q \in AttachedPositions : p[1] # q[1] /\ TokenAt(p) = TokenAt(q)

\* C3: when a WALK section's token is already a key of
\* common_data.walking_polylines at the moment the section is processed, no fetch
\* is issued for the section and its gis.polyline is set to the cached Polyline.
C3_CachedTokenNoFetch ==
    [][(/\ pc = "walk"
        /\ Fetchable(CurSection)
        /\ CurSection.gis[1].ctx \in DOMAIN common_data.walking_polylines)
       => (/\ fetchLog' = fetchLog
           /\ request_counter' = request_counter
           /\ pc' # "fetching"
           /\ trips'[Len(trips)].sections[secIdx].gis[1].polyline
                 = common_data.walking_polylines[CurSection.gis[1].ctx])]_vars
\* one trip with two WALK sections of the same token, both attached, one fetch
C3_Witness ==
    /\ pc = "done"
    /\ Len(fetchLog) = 1
    /\ \E p, q \in AttachedPositions :
          p[1] = q[1] /\ p[2] < q[2] /\ TokenAt(p) = TokenAt(q)

\* C4: if the walking-details fetch for a token fails (transport error) or returns
\* no geometry, the WALK section keeps the distance and duration it was assembled
\* with, has no Polyline and no segments attached, no entry is added to
\* common_data.walking_polylines by that fetch, and the owning Trip is in the list
\* plan_trip returns.
C4_FailedFetchKeepsSummary ==
    \A f \in failed :
       \E t \in 1..Len(trips) :
          /\ trips[t].id = f[1]
          /\ LET gis == trips[t].sections[f[2]].gis[1]
                 gis_data == outConL[f[1]].secL[f[2]].gis
             IN  /\ gis.polyline = 0
                 /\ gis.segments = <<>>
                 /\ gis.distance = gis_data.dist
                 /\ gis.duration_seconds = gis_data.durS
C4_FailedFetchStoresNothing ==
    (pc = "fetching" /\ ~HasGeometry(response[1]))
       => common_data'.walking_polylines = common_data.walking_polylines
C4_FetchFailureDegrades ==
    []C4_FailedFetchKeepsSummary /\ [][C4_FailedFetchStoresNothing]_vars
\* plan_trip has returned a trip with a section whose fetch failed, and the token
\* of that section is in no cache entry
C4_Witness ==
    /\ pc = "done"
    /\ \E f \in failed :
          \E t \in 1..Len(trips) :
             /\ trips[t].id = f[1]
             /\ trips[t].sections[f[2]].gis[1].ctx
                   \notin DOMAIN common_data.walking_polylines

\* C5: a connection record that contains a section without the `type` field is
\* assembled to None; in a batch that contains such a connection among valid
\* ones, every valid connection is assembled and returned and only the invalid
\* one is missing.
HasUntypedSection(c) == \E i \in 1..Len(c.secL) : "type" \notin DOMAIN c.secL[i]
AllSectionsValid(c) ==
    \A i \in 1..Len(c.secL) : "type" \in DOMAIN c.secL[i] /\ c.secL[i].type \in Modes
TripsOf(k) == {t \in 1..Len(trips) : trips[t].id = k}
C5_UntypedSectionDropsConnection ==
    \A k \in 1..Len(outConL) :
       /\ HasUntypedSection(outConL[k]) => TripsOf(k) = {}
       /\ AllSectionsValid(outConL[k]) =>
             /\ Cardinality(TripsOf(k)) = 1
             /\ \A t \in TripsOf(k) : Len(trips[t].sections) = Len(outConL[k].secL)
\* a batch of a connection with a valid and an untyped section and a valid
\* connection: one trip is returned
C5_Witness ==
    /\ pc = "done"
    /\ Len(trips) = 1
    /\ \E k, m \in 1..Len(outConL) :
          /\ HasUntypedSection(outConL[k])
          /\ \E i \in 1..Len(outConL[k].secL) : "type" \in DOMAIN outConL[k].secL[i]
          /\ AllSectionsValid(outConL[m])
          /\ outConL[m].secL # <<>>

\* C6: every assembled section of mode TETA whose departure record carries the
\* call-ahead flag (dCaS) has booking_required = true and
\* booking_deadline_minutes = 120, whatever the flag's value and the other fields.
TetaWithFlag(sec_data) ==
    /\ "type" \in DOMAIN sec_data /\ sec_data.type = "TETA"
    /\ "dep" \in DOMAIN sec_data /\ "dCaS" \in DOMAIN sec_data.dep
C6_TetaBooking ==
    (apc = "done" /\ assembled # None) =>
       \A i \in 1..Len(assembled[1].sections) :
          TetaWithFlag(conn.secL[i]) =>
             /\ assembled[1].sections[i].booking_required = TRUE
             /\ assembled[1].sections[i].booking_deadline_minutes = Some(120)
\* an assembled TETA section whose departure record carries dCaS = false
C6_Witness ==
    /\ apc = "done"
    /\ assembled # None
    /\ \E i \in 1..Len(assembled[1].sections) :
          /\ TetaWithFlag(conn.secL[i])
          /\ conn.secL[i].dep.dCaS = FALSE
          /\ assembled[1].sections[i].type = "TETA"

\* C7: decode_polyline of the empty string is the empty sequence; for an input
\* that ends right after a complete latitude delta the pending pair is dropped:
\* the output is exactly the points of the preceding complete pairs.
\* positions of the characters that end a group
GroupEnds(s) == {i \in 1..Len(s) : s[i] - 63 < 32}
EndsAfterLatitude(s) ==
    /\ s # <<>>
    /\ Len(s) \in GroupEnds(s)
    /\ Cardinality(GroupEnds(s)) % 2 = 1
\* the input up to the end of the last complete pair
CompletePairs(s) ==
    LET ends == GroupEnds(s) \ {Len(s)}
    IN  IF ends = {} THEN <<>>
        ELSE SubSeq(s, 1, CHOOSE i \in ends : \A j \in ends : j <= i)
C7_TruncatedTailDropped ==
    cpc = "done" =>
       /\ encoded = <<>> => decoded = Some(<<>>)
       /\ EndsAfterLatitude(encoded) =>
             /\ Len(decoded[1]) = (Cardinality(GroupEnds(encoded)) - 1) \div 2
             /\ decoded[1] = decode_polyline(CompletePairs(encoded))
\* a decoded raw string of one complete pair followed by a latitude delta
C7_Witness ==
    /\ cpc = "done"
    /\ coords = None
    /\ EndsAfterLatitude(encoded)
    /\ Cardinality(GroupEnds(encoded)) = 3
    /\ Len(decoded[1]) = 1

\* C8: for every finite sequence of coordinates given as integer multiples of
\* 1e-5 degree, decode_polyline of the encoding of the sequence (delta, zig-zag,
\* 5-bit groups with continuation bit, offset +63) is the sequence, negative
\* values and zero deltas included.
C8_RoundTrip == (cpc = "done" /\ coords # None) => decoded = coords
\* a decoded sequence of two points with a negative value and a zero delta
C8_Witness ==
    /\ cpc = "done"
    /\ coords # None
    /\ Len(coords[1]) = 2
    /\ coords[1][1][1] < 0
    /\ coords[1][2] = coords[1][1]
    /\ decoded = coords

\* C9 (as stated): for a common block whose locL, prodL or polyL list has N
\* entries, the table's key set is exactly {0, ..., N-1} and the entry at key i
\* is built from the i-th input entry.
KeysArePositions(table, d, k) ==
    k \in DOMAIN d => DOMAIN table = 0..(Len(d[k]) - 1)
C9_KeysAreAllPositions ==
    rpc = "done" =>
       /\ KeysArePositions(resolved[1].locations, common, "locL")
       /\ KeysArePositions(resolved[1].products, common, "prodL")
       /\ KeysArePositions(resolved[1].polylines, common, "polyL")
       /\ \A i \in DOMAIN resolved[1].locations :
             resolved[1].locations[i] = LocationFromApi(common.locL[i + 1])
       /\ \A i \in DOMAIN resolved[1].products :
             resolved[1].products[i] = ProductFromApi(common.prodL[i + 1])
       /\ \A i \in DOMAIN resolved[1].polylines :
             resolved[1].polylines[i].encoded = common.polyL[i + 1].crdEncYX

\* C10 (as stated): a polyL entry that lacks the geometry string (crdEncYX)
\* yields, at its positional index in CommonData.polylines, a Polyline with an
\* empty coordinate list.
C10_EmptyPolylineAtIndex ==
    (rpc = "done" /\ "polyL" \in DOMAIN common) =>
       \A i \in 0..(Len(common.polyL) - 1) :
          "crdEncYX" \notin DOMAIN common.polyL[i + 1] =>
             /\ i \in DOMAIN resolved[1].polylines
             /\ resolved[1].polylines[i].coordinates = <<>>

\* the assembler has returned a Trip
Assembled == apc = "done" /\ assembled # None
\* the positions of the section records of mode m in the assembled connection
SectionsOfMode(m) ==
    {i \in 1..Len(Get(conn, "secL", <<>>)) :
        "type" \in DOMAIN conn.secL[i] /\ conn.secL[i].type = m}

\* C11 (as stated): every section of mode WALK in a Trip the assembler returns
\* has a GisInfo (distance, duration, token) and no Journey, and a connection
\* with a WALK section record that has no `gis` payload is not assembled.
C11_WalkRequiresGisInfo ==
    apc = "done" =>
       /\ (\E i \in SectionsOfMode("WALK") : "gis" \notin DOMAIN conn.secL[i])
             => assembled = None
       /\ assembled # None =>
             \A i \in SectionsOfMode("WALK") :
                /\ assembled[1].sections[i].gis # None
                /\ assembled[1].sections[i].journey = None

\* C12 (as stated): every section of mode JNY in a Trip the assembler returns has
\* a Journey and no GisInfo, the Journey's stops are the entries of stopL in input
\* order (absent times stay absent), its polyline_indices are polyG.polyXL as
\* given, and a connection with a JNY section record that has no `jny` payload is
\* not assembled.
StopMatches(stop, stop_data) ==
    /\ stop.location_index = stop_data.locX
    /\ stop.departure_time = GetOpt(stop_data, "dTimeS")
    /\ stop.arrival_time = GetOpt(stop_data, "aTimeS")
JourneyMatches(journey, jny_data) ==
    /\ Len(journey.stops) = Len(jny_data.stopL)
    /\ \A k \in 1..Len(jny_data.stopL) : StopMatches(journey.stops[k], jny_data.stopL[k])
    /\ journey.polyline_indices = jny_data.polyG.polyXL
C12_JnyRequiresJourney ==
    apc = "done" =>
       /\ (\E i \in SectionsOfMode("JNY") : "jny" \notin DOMAIN conn.secL[i])
             => assembled = None
       /\ assembled # None =>
             \A i \in SectionsOfMode("JNY") :
                /\ assembled[1].sections[i].gis = None
                /\ assembled[1].sections[i].journey # None
                /\ JourneyMatches(assembled[1].sections[i].journey[1], conn.secL[i].jny)

\* C13 (as stated): for the same `jny` record the Journey attached to a TETA
\* section equals the Journey attached to a JNY section (identity fields, stops,
\* polyline indices, messages).
\* the connection with its i-th section retagged as a scheduled journey
AsScheduled(c, i) == [c EXCEPT !.secL[i].type = "JNY"]
C13_TetaJourneyEqualsJnyJourney ==
    Assembled =>
       \A i \in SectionsOfMode("TETA") :
          "jny" \in DOMAIN conn.secL[i] =>
             assembled[1].sections[i].journey
                = _parse_trip(AsScheduled(conn, i))[1].sections[i].journey

\* C14: a section of mode BIKE, CAR, TAXI, KISS or PARK is accepted and carries
\* its departure and arrival bundles and its messages, but neither a Journey nor a
\* GisInfo, also when the section record holds `jny` or `gis` payloads.
PlainModes == {"BIKE", "CAR", "TAXI", "KISS", "PARK"}
PlainSections == UNION {SectionsOfMode(m) : m \in PlainModes}
C17_FareSetsNotExpanded ==
    Assembled =>
       IF "trfRes" \in DOMAIN conn
       THEN /\ assembled[1].tariff_result # None
            /\ assembled[1].tariff_result[1].fare_sets = <<>>
            /\ "statusCode" \in DOMAIN conn.trfRes =>
                  assembled[1].tariff_result[1].status_code = conn.trfRes.statusCode
            /\ assembled[1].tariff_result[1].external_content
                  = GetOpt(conn.trfRes, "extCont")
       ELSE assembled[1].tariff_result = None
\* an assembled connection whose trfRes holds a fare set, a status code and
\* external content
C17_Witness ==
    /\ Assembled
    /\ "trfRes" \in DOMAIN conn
    /\ {"statusCode", "extCont"} \subseteq DOMAIN conn.trfRes
    /\ conn.trfRes.fareSetL # <<>>
    /\ assembled[1].tariff_result[1].status_code = "OK"

\* the indexed tables and lists of a CommonData, the walking cache left out
TablesOf(data) == [data EXCEPT !.walking_polylines = <<>>]

TableOfField ==
    [locL |-> "locations", prodL |-> "products", polyL |-> "polylines",
     opL |-> "operators", remL |-> "remarks", icoL |-> "icons",
     dirL |-> "directions", lDrawStyleL |-> "draw_styles", layerL |-> "layers",
     crdSysL |-> "coordinate_systems"]
C16_AbsentFieldsEmptyTables ==
    rpc = "done" =>
       /\ resolved # None
       /\ \A f \in DOMAIN TableOfField :
             IF f \in DOMAIN common
             THEN resolved[1][TableOfField[f]]
                     = _parse_common_data(f :> common[f])[TableOfField[f]]
             ELSE resolved[1][TableOfField[f]] = <<>>
\* a resolved block that holds locL and dirL only
C16_Witness ==
    /\ rpc = "done"
    /\ DOMAIN common = {"locL", "dirL"}
    /\ resolved[1].locations # <<>>
    /\ resolved[1].directions # <<>>
    /\ resolved[1].products = <<>>
    /\ resolved[1].icons = <<>>

\* C18: decode_polyline of the golden vector "kuzrIqyjkAmCzWoD`YqC`^" is a
\* non-empty sequence whose first point is (5568358, 1251241) in 1e-5 degree,
\* inside the Copenhagen bounding box: latitude 55.6 to 55.7, longitude 12.5 to
\* 12.6.
C18_GoldenVector ==
    (cpc = "done" /\ encoded = GoldenVector) =>
       /\ decoded[1] # <<>>
       /\ decoded[1][1] = <<5568358, 1251241>>
       /\ 5560000 <= decoded[1][1][1] /\ decoded[1][1][1] <= 5570000
       /\ 1250000 <= decoded[1][1][2] /\ decoded[1][1][2] <= 1260000
\* the golden vector has been decoded, to four points
C18_Witness ==
    /\ cpc = "done"
    /\ encoded = GoldenVector
    /\ Len(decoded[1]) = 4

\* The reference decoder of the specification: as decode_polyline, but a
\* character continues its group exactly when bit 0x20 of (code - 63) is set
\* (two's complement for a negative value).
RefContinues(b) == (b \div 32) % 2 = 1
RECURSIVE RefReadGroup(_, _, _, _)
RefReadGroup(s, index, shift, result) ==
    IF index >= Len(s)
    THEN [result |-> result, index |-> index]
    ELSE LET b == s[index + 1] - 63
             r == result + (b % 32) * Pow2(shift)
         IN  IF RefContinues(b)
             THEN RefReadGroup(s, index + 1, shift + 5, r)
             ELSE [result |-> r, index |-> index + 1]
RECURSIVE RefDecodeLoop(_, _, _, _, _)
RefDecodeLoop(s, index, lat, lon, coordinates) ==
    IF index >= Len(s)
    THEN coordinates
    ELSE LET g1 == RefReadGroup(s, index, 0, 0)
             lat2 == lat + ZigZag(g1.result)
         IN  IF g1.index >= Len(s)
             THEN coordinates
             ELSE LET g2 == RefReadGroup(s, g1.index, 0, 0)
                      lon2 == lon + ZigZag(g2.result)
                  IN  RefDecodeLoop(s, g2.index, lat2, lon2,
                                    Append(coordinates, <<lat2, lon2>>))
RefDecode(s) == RefDecodeLoop(s, 0, 0, 0, <<>>)

\* C20 (as stated): for every input string, characters below 63 and above 126
\* included, decode_polyline returns what the reference decoder returns.
C20_MatchesReferenceDecoder ==
    (cpc = "done" /\ coords = None) => decoded = Some(RefDecode(encoded))

\* positions of the WALK sections with a token: those the walking pass handles
FetchablePositions == {p \in SectionPositions : Fetchable(SectionAt(p))}
\* the walking pass is through with the section: a Polyline is attached, or the
\* fetch for it gave none
Processed(p) == RefAt(p) # 0 \/ <<trips[p[1]].id, p[2]>> \in failed
\* the section comes before the one the loops are at
Passed(p) ==
    \/ p[1] < Len(trips)
    \/ p[1] = Len(trips) /\ (pc \in {"parse", "done"} \/ p[2] < secIdx)

\* C19: walking-detail fetches are issued one after the other in encounter order,
\* section order within a trip and trip order across the result set: when a
\* fetch is issued every WALK section before it, in the trip and in the trips
\* before, has been processed and none after it has; the request carries the
\* token of the section the loops are at; and no fetch is issued while the
\* response of the previous one is outstanding.
C19_InEncounterOrder ==
    (auto_fetch_walking /\ get_polylines) =>
       /\ \A p \in FetchablePositions : Processed(p) <=> Passed(p)
       /\ response # None <=> pc = "fetching"
       /\ \A t \in 1..Len(trips) : \A u \in 1..Len(trips) :
             t < u => trips[t].id < trips[u].id
C19_OneFetchAtATime ==
    /\ Len(fetchLog') > Len(fetchLog) =>
          /\ response = None /\ response' # None
          /\ pc = "walk"
          /\ fetchLog' = Append(fetchLog, CurSection.gis[1].ctx)
          /\ <<Len(trips'), secIdx'>> = <<Len(trips), secIdx>>
    /\ response # None =>
          /\ fetchLog' = fetchLog
          /\ response' = None
C19_SequentialFetches == []C19_InEncounterOrder /\ [][C19_OneFetchAtATime]_vars
\* plan_trip has returned two trips after three fetches, one of which failed
C19_Witness ==
    /\ pc = "done"
    /\ Len(trips) = 2
    /\ Len(fetchLog) = 3
    /\ failed # {}
    /\ \A p \in FetchablePositions : Processed(p)

\* C27 (as stated): an assembled section has booking_required = true and a
\* booking deadline only if its mode is TETA and its departure record carries the
\* call-ahead flag; every other section has booking_required = false and no
\* deadline.
C27_BookingOnlyForTeta ==
    Assembled =>
       \A i \in 1..Len(assembled[1].sections) :
          IF TetaWithFlag(conn.secL[i])
          THEN /\ assembled[1].sections[i].booking_required = TRUE
               /\ assembled[1].sections[i].booking_deadline_minutes # None
          ELSE /\ assembled[1].sections[i].booking_required = FALSE
               /\ assembled[1].sections[i].booking_deadline_minutes = None

\* C30: decode_polyline terminates on every finite input: a group read at any
\* position of the string ends at a greater index that does not exceed the
\* length of the string, also when the last character has its continuation flag
\* set, and at most floor(length / 2) points are emitted.
C30_DecodeTerminates ==
    (cpc = "done" /\ coords = None) =>
       /\ decoded # None
       /\ \A i \in 0..(Len(encoded) - 1) :
             LET g == ReadGroup(encoded, i, 0, 0)
             IN  i < g.index /\ g.index <= Len(encoded)
       /\ ReadGroup(encoded, Len(encoded), 0, 0).index = Len(encoded)
       /\ 2 * Len(decoded[1]) <= Len(encoded)
\* a decoded string of the greatest length whose last character has the
\* continuation flag set, with a point emitted
C30_Witness ==
    /\ cpc = "done"
    /\ coords = None
    /\ Len(encoded) = MaxLen
    /\ encoded[Len(encoded)] - 63 >= 32
    /\ Len(decoded[1]) = 1

\* C29 (as stated): the coordinate list get_walking_details returns is the
\* coordinate list of the Polyline it returns, for every response, a response
\* with two or more polyL entries with geometry included; when it returns no
\* Polyline the coordinate list is empty.
C29_CoordinatesOfPolyline ==
    wpc = "done" =>
       IF details[1].polyline = None
       THEN details[1].coordinates = <<>>
       ELSE details[1].coordinates = details[1].polyline[1].coordinates

\* C22: once _parse_common_data has returned, trip assembly and cache fills leave
\* the indexed tables of the CommonData unchanged; the only field that changes is
\* walking_polylines, and only by the insertion of a new key when a fetch gave
\* geometry.
C22_TablesFrozen ==
    pc # "idle" =>
       /\ TablesOf(common_data') = TablesOf(common_data)
       /\ LET old == common_data.walking_polylines
              new == common_data'.walking_polylines
          IN  \/ new = old
              \/ /\ pc = "fetching"
                 /\ HasGeometry(response[1])
                 /\ DOMAIN old \subseteq DOMAIN new
                 /\ Cardinality(DOMAIN new \ DOMAIN old) = 1
                 /\ \A k \in DOMAIN old : new[k] = old[k]
C22_SingleWriter == [][C22_TablesFrozen]_vars
\* plan_trip has returned a CommonData with locations, polylines and two cache
\* entries
C22_Witness ==
    /\ pc = "done"
    /\ common_data.locations # <<>>
    /\ common_data.polylines # <<>>
    /\ Cardinality(DOMAIN common_data.walking_polylines) = 2

\* C23: within plan_trip, after the response of the trip search has been
\* received, a step changes the request counter only by sending one GisRoute
\* fetch; in particular the steps that assemble a connection (_parse_trip) send
\* nothing.
C23_OnlyFetchesCount ==
    pc # "idle" =>
       /\ \/ request_counter' = request_counter
          \/ /\ request_counter' = request_counter + 1
             /\ pc = "walk"
             /\ Len(fetchLog') = Len(fetchLog) + 1
       /\ Len(outConL') > Len(outConL) => request_counter' = request_counter
C23_NoOtherRequests == [][C23_OnlyFetchesCount]_vars
\* plan_trip has returned two trips after the trip search and two fetches
C23_Witness ==
    /\ pc = "done"
    /\ Len(trips) = 2
    /\ Len(fetchLog) = 2
    /\ request_counter = 3

\* C24 (as stated): every WALK section with a Polyline attached carries the
\* WalkingSegment list the fetch for its token returned, the sections served from
\* the cache included, so two sections of the same token have equal lists.
C24_SegmentsWithPolyline ==
    /\ \A p \in AttachedPositions :
          SectionAt(p).gis[1].segments = <<WalkingSegmentFromApi(SegRec)>>
    /\ \A p, q \in AttachedPositions :
          TokenAt(p) = TokenAt(q) =>
             SectionAt(p).gis[1].segments = SectionAt(q).gis[1].segments

\* the positions whose fetch for token k gave no Polyline
FailedWith(k) == {f \in failed : outConL[f[1]].secL[f[2]].gis.ctx = k}
\* a fetch for token k is outstanding
FetchingNow(k) == pc = "fetching" /\ CurSection.gis[1].ctx = k

\* C25: at every step of plan_trip a key is in common_data.walking_polylines only
\* if a fetch for that token returned a Polyline; an entry once stored is never
\* removed or replaced; and every WALK section with gis.polyline set has its token
\* in the cache with the identical Polyline.
C25_KeysComeFromFetches ==
    /\ DOMAIN common_data.walking_polylines \subseteq Tokens
    /\ \A k \in Tokens :
          FetchCount(k) = Cardinality(FailedWith(k))
                          + (IF k \in DOMAIN common_data.walking_polylines THEN 1 ELSE 0)
                          + (IF FetchingNow(k) THEN 1 ELSE 0)
    /\ \A k \in DOMAIN common_data.walking_polylines :
          common_data.walking_polylines[k] \in 1..Len(heap)
    /\ \A p \in AttachedPositions :
          /\ TokenAt(p) \in DOMAIN common_data.walking_polylines
          /\ common_data.walking_polylines[TokenAt(p)] = RefAt(p)
C25_EntriesKept ==
    /\ \A k \in DOMAIN common_data.walking_polylines :
          /\ k \in DOMAIN common_data'.walking_polylines
          /\ common_data'.walking_polylines[k] = common_data.walking_polylines[k]
    /\ \A i \in 1..Len(heap) : i <= Len(heap') /\ heap'[i] = heap[i]
C25_CacheConsistent == []C25_KeysComeFromFetches /\ [][C25_EntriesKept]_vars
\* plan_trip has returned with two cache entries, one of them for a token whose
\* first fetch failed
C25_Witness ==
    /\ pc = "done"
    /\ Cardinality(DOMAIN common_data.walking_polylines) = 2
    /\ \E k \in DOMAIN common_data.walking_polylines : FetchCount(k) = 2

\* the ids of the connections consumed so far whose sections are all valid
ValidIds ==
    SelectSeq([k \in 1..Len(outConL) |-> k], LAMBDA k : AllSectionsValid(outConL[k]))

\* C28: the trips of plan_trip are exactly the connections of outConL that
\* assemble to a Trip, in the order of outConL, with no null among them, and each
\* Trip has one section per entry of the connection's secL, in the same order.
C28_TripsInOrder ==
    /\ [t \in 1..Len(trips) |-> trips[t].id] = ValidIds
    /\ \A t \in 1..Len(trips) :
          LET secL == outConL[trips[t].id].secL
          IN  /\ trips[t] # None
              /\ Len(trips[t].sections) = Len(secL)
              /\ \A i \in 1..Len(secL) :
                    /\ trips[t].sections[i].type = secL[i].type
                    /\ trips[t].sections[i].departure = GetOpt(secL[i], "dep")
\* plan_trip has returned two trips, the first with a WALK and then a JNY section
C28_Witness ==
    /\ pc = "done"
    /\ Len(trips) = 2
    /\ Len(trips[1].sections) = 2
    /\ trips[1].sections[1].type = "WALK"
    /\ trips[1].sections[2].type = "JNY"

\* C21: a connection record with a section whose mode tag is none of the eight
\* declared modes is discarded as a whole (_parse_trip returns None for it), and
\* the other connections of the batch are assembled and returned.
HasUnknownMode(c) ==
    \E i \in 1..Len(c.secL) : "type" \in DOMAIN c.secL[i] /\ c.secL[i].type \notin Modes
C21_UnknownModeDropsConnection ==
    \A k \in 1..Len(outConL) :
       /\ HasUnknownMode(outConL[k]) =>
             /\ _parse_trip(outConL[k]) = None
             /\ TripsOf(k) = {}
       /\ ~HasUnknownMode(outConL[k]) =>
             /\ Cardinality(TripsOf(k)) = 1
             /\ \A t \in TripsOf(k) :
                   /\ Len(trips[t].sections) = Len(outConL[k].secL)
                   /\ \A i \in 1..Len(outConL[k].secL) :
                         trips[t].sections[i].type = outConL[k].secL[i].type
\* a batch of a connection with a WALK section and a section of an undeclared
\* mode, and a valid connection: one trip is returned
C21_Witness ==
    /\ pc = "done"
    /\ Len(outConL) = 2
    /\ Len(trips) = 1
    /\ \E k \in 1..Len(outConL) :
          /\ HasUnknownMode(outConL[k])
          /\ \E i \in 1..Len(outConL[k].secL) : outConL[k].secL[i].type = "WALK"
    /\ trips[1].sections # <<>>

\* the section record a position of the walking pass was assembled from
RecordAt(t, i) == outConL[trips[t].id].secL[i]
\* a WALK record with a GisInfo that holds a non-empty token
WalkWithToken(sec_data) ==
    /\ sec_data.type = "WALK"
    /\ "gis" \in DOMAIN sec_data
    /\ "ctx" \in DOMAIN sec_data.gis
    /\ sec_data.gis.ctx # ""

\* C26: a walking-detail fetch is issued only for a WALK section with a GisInfo
\* and a non-empty token, and only when auto_fetch_walking and get_polylines are
\* both true; if either is false plan_trip issues no fetch, attaches no Polyline
\* and returns an empty walking-polyline cache.
C26_FetchOnlyForWalkWithToken ==
    /\ pc = "fetching" =>
          /\ auto_fetch_walking /\ get_polylines
          /\ WalkWithToken(RecordAt(Len(trips), secIdx))
          /\ fetchLog[Len(fetchLog)] = RecordAt(Len(trips), secIdx).gis.ctx
    /\ \A i \in 1..Len(fetchLog) :
          \E t \in 1..Len(trips) : \E j \in 1..Len(trips[t].sections) :
             WalkWithToken(RecordAt(t, j)) /\ RecordAt(t, j).gis.ctx = fetchLog[i]
    /\ \A p \in AttachedPositions : WalkWithToken(RecordAt(p[1], p[2]))
    /\ ~(auto_fetch_walking /\ get_polylines) =>
          /\ fetchLog = <<>>
          /\ request_counter <= 1
          /\ AttachedPositions = {}
          /\ common_data.walking_polylines = <<>>
\* plan_trip has returned, with both options on, a trip of four sections after
\* one fetch: the WALK section with a token is attached, the WALK sections
\* without GisInfo and without token and the BIKE section are not
C26_Witness ==
    /\ pc = "done"
    /\ auto_fetch_walking /\ get_polylines
    /\ Len(fetchLog) = 1
    /\ \E t \in 1..Len(trips) :
          /\ {RecordAt(t, i) : i \in 1..Len(trips[t].sections)}
                = {WalkRec("a"), WalkNoGisRec, WalkNoTokenRec, BikeGisRec}
          /\ Cardinality({p \in AttachedPositions : p[1] = t}) = 1

====
